---- MODULE Spec2Model ----
(***************************************************************************)
(* A model of the notebooks of andersleno:                                 *)
(*   - the weak-acid pH solver (calculate_ph_approximate,                  *)
(*     calculate_ph_full, check_solution_acid, check_solution_base);       *)
(*   - the skip-if-exists download helper of the ESOL notebook             *)
(*     (download_data_file), its descriptor filters and split_and_scale;   *)
(*   - find_homo_lumo of the molecular-orbital notebook;                   *)
(*   - get_environment of the fingerprint notebook;                        *)
(*   - the dropdowns of the molecule explorer.                             *)
(* Real numbers are exact rationals <<n, d>> (d > 0, lowest terms); the    *)
(* floating-point error of the numerical library (np.roots, np.sqrt) is a  *)
(* rounding mode fixed for a whole behaviour: the library is a function,   *)
(* but which neighbour of the true value it returns is not known.          *)
(***************************************************************************)
EXTENDS Integers, Sequences, FiniteSets

VARIABLES
    fp,          \* rounding of the numerical library: "exact", "lo" or "hi"
    order,       \* the order in which np.roots returns the roots (a permutation)
    pc,          \* position of the running pH call ("idle" when none runs)
    fn,          \* the pH routine that runs or ran last
    c_ha_zero,   \* its arguments
    ka,
    kw,
    roots_h,     \* locals of calculate_ph_full
    x_h,
    w,
    roots_oh,
    x_oh,
    wb,          \* what check_solution_base returned
    nwarn,       \* warnings.warn calls made by the running call
    x,           \* local of calculate_ph_approximate
    ret,         \* the value returned
    exc,         \* the exception raised ("" when none)
    fs,          \* what is at output_file: NoFile or <<text>>
    dpc,         \* position of the running download_data_file call
    response,    \* the HTTP response of the running call
    dret,        \* what download_data_file returned
    dexc,        \* the exception it raised ("" when none)
    sessions,    \* requests.Session objects created so far
    requests,    \* HTTP requests sent so far
    writes,      \* successful downloads written so far
    calls,       \* download_data_file calls started so far
    fs_call,     \* fs when the running call started
    req_call,    \* requests when the running call started
    ses_call,    \* sessions when the running call started
    fs_init,     \* fs before the first call
    cpc,         \* position in the cell "Remove highly correlated columns"
    rd_corr,     \* rdkit_descriptors.corr() of the columns before the cell
    rd_columns,  \* the columns of rdkit_descriptors, in order
    corr,        \* local corr
    upper,       \* local upper
    to_drop,     \* local to_drop
    npc,         \* position in the cell "Remove columns with nan/inf"
    fr_columns,  \* the columns of rdkit_descriptors in that cell, in order
    fr_data,     \* its cells: fr_data[column][row]
    fr_first,    \* fr_data before the cell
    columns_before, \* local columns_before
    diff,        \* local diff
    mo,          \* zip(mf.mo_energy, mf.mo_occ): the pairs <<energy, occ>>
    hi,          \* orbitals find_homo_lumo has looked at
    homo,        \* locals of find_homo_lumo
    homo_idx,
    lumo,
    lumo_idx,
    hret,        \* what find_homo_lumo returned
    mol_bonds,   \* the molecule given to get_environment: its bonds <<begin, end>>
    mol_conf,    \* whether it has a conformer
    mol_kind,    \* what its atoms are: "aromatic", "ring" or "other"
    center,      \* arguments of get_environment
    radius,
    epc,         \* position of the get_environment call
    env,         \* local env
    eret,        \* what get_environment returned
    eexc,        \* the exception it raised ("" when none)
    table,       \* the explorer's table: rows <<name, smiles>>
    names,       \* table["names"].values
    molecules,   \* the explorer's globals molecules and molecules_3d
    molecules_3d,
    mode,        \* the dropdown cell that ran: "2d" or "3d" ("" when none)
    xpc,         \* position in the explorer notebook
    options,     \* the dropdown's options: pairs <<label, value>>
    index,       \* the position of the selected option (0 when no dropdown)
    viewed,      \* the last call of the view function: <<argument, result>>
    xexc,        \* the exception a cell raised ("" when none)
    raw_data,    \* X_raw and y_raw: the rows <<x, y>>
    shuffle,     \* the permutation train_test_split draws for random_state=5
    spc,         \* position in split_and_scale
    X_train,     \* locals of split_and_scale
    X_test,
    y_train,
    y_test,
    scale_x,     \* a fitted StandardScaler is <<mean_, scale_ squared>>
    scale_y

phvars == <<fp, order, pc, fn, c_ha_zero, ka, kw, roots_h, x_h, w, roots_oh,
            x_oh, wb, nwarn, x, ret, exc>>
dlvars == <<fs, dpc, response, dret, dexc, sessions, requests, writes, calls,
            fs_call, req_call, ses_call, fs_init>>
corvars == <<cpc, rd_corr, rd_columns, corr, upper, to_drop>>
nanvars == <<npc, fr_columns, fr_data, fr_first, columns_before, diff>>
homvars == <<mo, hi, homo, homo_idx, lumo, lumo_idx, hret>>
envvars == <<mol_bonds, mol_conf, mol_kind, center, radius, epc, env, eret, eexc>>
expvars == <<table, names, molecules, molecules_3d, mode, xpc, options, index,
             viewed, xexc>>
sclvars == <<raw_data, shuffle, spc, X_train, X_test, y_train, y_test, scale_x,
             scale_y>>
newvars == <<corvars, nanvars, homvars, envvars, expvars, sclvars>>
notcor == <<phvars, dlvars, nanvars, homvars, envvars, expvars, sclvars>>
notnan == <<phvars, dlvars, corvars, homvars, envvars, expvars, sclvars>>
nothom == <<phvars, dlvars, corvars, nanvars, envvars, expvars, sclvars>>
notenv == <<phvars, dlvars, corvars, nanvars, homvars, expvars, sclvars>>
notexp == <<phvars, dlvars, corvars, nanvars, homvars, envvars, sclvars>>
notscl == <<phvars, dlvars, corvars, nanvars, homvars, envvars, expvars>>

vars == <<phvars, dlvars, newvars>>

-----------------------------------------------------------------------------
(* Bounds of the model. *)

\* Inputs and grid values are multiples of 1/Den.
Den == 2
\* Inputs have numerators up to MaxNum.
MaxNum == 3
\* download_data_file is called at most MaxCalls times.
MaxCalls == 3
\* The number of descriptor columns of the correlation filter is at most MaxCols.
MaxCols == 3
\* The descriptor table has MaxRows rows (molecules).
MaxRows == 2
\* At most MaxOdd cells of the table differ from the common value.
MaxOdd == 2
\* find_homo_lumo is given at most MaxOrbitals orbitals.
MaxOrbitals == 3
\* A molecule given to get_environment has MaxAtoms atoms, and the radius
\* asked for is at most MaxRadius.
MaxAtoms == 3
MaxRadius == 2
\* The explorer's table has at most MaxMolecules rows.
MaxMolecules == 2
\* split_and_scale is given Samples rows.
Samples == 3

-----------------------------------------------------------------------------
(* Exact rational arithmetic.  <<n, 0>> is a non-finite float: nan (n = 0), *)
(* inf (n = 1) or -inf (n = -1).                                            *)

None == <<>>

Abs(n) == IF n < 0 THEN -n ELSE n

RECURSIVE GCD(_, _)
GCD(a, b) == IF b = 0 THEN a ELSE GCD(b, a % b)

Norm(n, d) ==
    IF d = 0 THEN <<IF n > 0 THEN 1 ELSE IF n < 0 THEN -1 ELSE 0, 0>>
    ELSE LET s == IF d < 0 THEN -1 ELSE 1
             g == GCD(Abs(n), Abs(d))
         IN  <<(s * n) \div g, (s * d) \div g>>

Q(n, d) == Norm(n, d)
Zero == <<0, 1>>
One == <<1, 1>>
NaN == <<0, 0>>

IsFinite(a) == Len(a) = 2 /\ a[2] # 0

RAdd(a, b) == Norm(a[1] * b[2] + b[1] * a[2], a[2] * b[2])
RNeg(a) == <<-a[1], a[2]>>
RSub(a, b) == RAdd(a, RNeg(b))
RMul(a, b) == Norm(a[1] * b[1], a[2] * b[2])
\* Float division: x / 0 is nan or +-inf, never an exception.
RDiv(a, b) == Norm(a[1] * b[2], a[2] * b[1])
RLt(a, b) == a[1] * b[2] < b[1] * a[2]
RLe(a, b) == a[1] * b[2] <= b[1] * a[2]
RSign(a) == IF a[1] > 0 THEN 1 ELSE IF a[1] < 0 THEN -1 ELSE 0
RAbs(a) == <<Abs(a[1]), a[2]>>
\* The least integer >= a.
Ceil(a) == -((-a[1]) \div a[2])

-----------------------------------------------------------------------------
(* Polynomials are coefficient sequences, highest power first (NumPy).      *)

RECURSIVE Horner(_, _, _, _)
Horner(poly, v, i, acc) ==
    IF i > Len(poly) THEN acc
    ELSE Horner(poly, v, i + 1, RAdd(RMul(acc, v), poly[i]))

\* The value of the polynomial at v.
PolyVal(poly, v) == Horner(poly, v, 1, Zero)

RECURSIVE MaxAbsCoef(_, _)
MaxAbsCoef(poly, i) ==
    IF i > Len(poly) THEN Zero
    ELSE LET m == MaxAbsCoef(poly, i + 1)
         IN  IF RLt(m, RAbs(poly[i])) THEN RAbs(poly[i]) ELSE m

\* Cauchy's bound: every root r of a monic polynomial has |r| < RootBound.
RootBound(poly) == 1 + Ceil(MaxAbsCoef(poly, 2))

\* The number of sign changes in the sequence of non-zero coefficients.
RECURSIVE SignChangesFrom(_, _, _)
SignChangesFrom(poly, i, last) ==
    IF i > Len(poly) THEN 0
    ELSE LET s == RSign(poly[i])
         IN  IF s = 0 THEN SignChangesFrom(poly, i + 1, last)
             ELSE (IF last # 0 /\ s # last THEN 1 ELSE 0)
                  + SignChangesFrom(poly, i + 1, s)

SignChanges(poly) == SignChangesFrom(poly, 1, 0)

\* The derivative of a polynomial.
Derivative(poly) ==
    [i \in 1 .. (Len(poly) - 1) |-> RMul(Q(Len(poly) - i, 1), poly[i])]

\* The sign of the polynomial just right of v, and just left of v.
RECURSIVE SignRight(_, _)
SignRight(poly, v) ==
    IF Len(poly) = 0 THEN 0
    ELSE LET s == RSign(PolyVal(poly, v))
         IN  IF s # 0 THEN s ELSE SignRight(Derivative(poly), v)

RECURSIVE SignLeft(_, _)
SignLeft(poly, v) ==
    IF Len(poly) = 0 THEN 0
    ELSE LET s == RSign(PolyVal(poly, v))
         IN  IF s # 0 THEN s ELSE -SignLeft(Derivative(poly), v)

\* Where the real roots lie.  Site 2g is the grid value g/Den, a root when
\* the polynomial is 0 there; site 2g+1 is the open interval between g/Den
\* and (g+1)/Den, which holds a root when the sign changes across it.
IsRootSite(poly, p) ==
    IF p % 2 = 0
    THEN RSign(PolyVal(poly, Q(p \div 2, Den))) = 0
    ELSE SignRight(poly, Q((p - 1) \div 2, Den))
           * SignLeft(poly, Q((p + 1) \div 2, Den)) < 0

RootSites(poly) ==
    LET B == RootBound(poly) * Den
    IN  {p \in (-2 * B) .. (2 * B) : IsRootSite(poly, p)}

\* The float the library returns for the root at site p: the root itself or
\* a neighbour of it, by the rounding mode, and of the root's sign (relative
\* error never moves a float across zero).
ApproxRoot(poly, p) ==
    LET onGrid == p % 2 = 0
        g == IF onGrid THEN p \div 2 ELSE (p - 1) \div 2
        sgn == IF p > 0 THEN 1 ELSE IF p < 0 THEN -1 ELSE 0
        raw == IF onGrid
               THEN (IF fp = "lo" THEN g - 1 ELSE IF fp = "hi" THEN g + 1 ELSE g)
               ELSE (IF fp = "hi" THEN g + 1 ELSE g)
        rs == IF raw > 0 THEN 1 ELSE IF raw < 0 THEN -1 ELSE 0
        n == IF rs = sgn THEN raw
             ELSE IF onGrid THEN g
             ELSE IF sgn > 0 THEN g + 1 ELSE g
    IN  Q(n, Den)

\* A root the grid does not isolate (a repeated or a non-real root); the
\* mask roots > 0 of the callers is False for it.
Unresolved == <<0, 0>>

RECURSIVE Ascending(_, _)
Ascending(poly, sites) ==
    IF sites = {} THEN <<>>
    ELSE LET p == CHOOSE m \in sites : \A o \in sites : m <= o
         IN  <<ApproxRoot(poly, p)>> \o Ascending(poly, sites \ {p})

Perms == {p \in [1..3 -> 1..3] : \A i, j \in 1..3 : p[i] = p[j] => i = j}

\* np.roots(poly) for a monic cubic: its three roots, in the library's order.
NpRoots(poly) ==
    LET asc == Ascending(poly, RootSites(poly))
        pad == [i \in 1..3 |-> IF i <= Len(asc) THEN asc[i] ELSE Unresolved]
    IN  [i \in 1..3 |-> pad[order[i]]]

IsPositive(r) == IsFinite(r) /\ r[1] > 0

\* roots[roots > 0]
Positive(roots) == SelectSeq(roots, IsPositive)

\* np.sqrt(q) for q >= 0: exact when q is the square of a grid value (IEEE
\* sqrt is correctly rounded), otherwise a neighbour by the rounding mode.
NpSqrt(q) ==
    LET top == Den * (Ceil(q) + 1)
        k == CHOOSE i \in 0..top :
                 /\ RLe(Q(i * i, Den * Den), q)
                 /\ RLt(q, Q((i + 1) * (i + 1), Den * Den))
    IN  IF Q(k * k, Den * Den) = q THEN Q(k, Den)
        ELSE IF fp = "hi" THEN Q(k + 1, Den) ELSE Q(k, Den)

\* -np.log10(v): <<"-log10", n, d>> for v = n/d > 0, inf for 0, nan below 0.
NegLog10(v) ==
    IF ~IsFinite(v) THEN <<"nan", 0, 0>>
    ELSE IF v[1] > 0 THEN <<"-log10", v[1], v[2]>>
    ELSE IF v[1] = 0 THEN <<"inf", 0, 0>>
    ELSE <<"nan", 0, 0>>

\* np.isclose(a, b, atol=1e-6) with NumPy's rtol of 1e-5:
\* |a - b| <= atol + rtol * |b|, False for a nan or an infinity.
AtolDen == 1000000
RtolDen == 100000

IsClose(a, b) ==
    /\ IsFinite(a)
    /\ IsFinite(b)
    /\ LET d == RAbs(RSub(a, b))
           m == RAbs(b)
       IN  d[1] * m[2]
             <= (d[2] * (m[2] + (AtolDen \div RtolDen) * m[1])) \div AtolDen

-----------------------------------------------------------------------------
(* The pH routines.                                                         *)

\* Bug variant: the constant term loses its sign.
PolyApproxSignSlip(c, k) == <<One, k, RMul(k, c)>>

\* poly of calculate_ph_approximate.
PolyApprox(c, k) == <<One, k, RNeg(RMul(k, c))>>

\* Bug variant: b^2 + 4ac.
DiscriminantPlus(poly) ==
    RAdd(RMul(poly[2], poly[2]), RMul(Q(4, 1), RMul(poly[1], poly[3])))

\* discriminant = poly[1] ** 2 - 4 * poly[0] * poly[2]
Discriminant(poly) ==
    RSub(RMul(poly[2], poly[2]), RMul(Q(4, 1), RMul(poly[1], poly[3])))

\* x = (-poly[1] + np.sqrt(discriminant)) / (2 * poly[0])
ApproxRootX(poly) ==
    RDiv(RAdd(RNeg(poly[2]), NpSqrt(Discriminant(poly))),
         RMul(Q(2, 1), poly[1]))

\* calculate_ph_approximate(c, k): <<x, ret, exc>>.
CalculatePhApproximate(c, k) ==
    LET poly == PolyApprox(c, k)
    IN  IF RLt(Discriminant(poly), Zero)
        THEN <<None, None, "ValueError: No positive roots!">>
        ELSE <<ApproxRootX(poly), NegLog10(ApproxRootX(poly)), "">>

\* Bug variant: the constant term loses its sign.
PolyHSignSlip(c, k, kwater) ==
    <<One, k, RNeg(RAdd(kwater, RMul(k, c))), RMul(k, kwater)>>

\* poly_h of calculate_ph_full.
PolyH(c, k, kwater) ==
    <<One, k, RNeg(RAdd(kwater, RMul(k, c))), RNeg(RMul(k, kwater))>>

\* kb = kw / ka
Kb(k, kwater) == RDiv(kwater, k)

\* Bug variant: kb is subtracted from the concentration.
PolyOHMinusKb(c, k, kwater) ==
    <<One, RSub(c, Kb(k, kwater)), RNeg(kwater),
      RNeg(RMul(Kb(k, kwater), kwater))>>

\* poly_oh of calculate_ph_full.
PolyOH(c, k, kwater) ==
    <<One, RAdd(c, Kb(k, kwater)), RNeg(kwater),
      RNeg(RMul(Kb(k, kwater), kwater))>>

\* The three checks of check_solution_acid, as <<[A-] < 0, [HA] < 0,
\* recomputed Ka not close to ka>>.
AcidProblems(c, k, kwater, v) ==
    LET c_OH == RDiv(kwater, v)
        c_A == RSub(v, c_OH)
        c_HA == RSub(c, c_A)
        ka_ == RDiv(RMul(v, c_A), c_HA)
    IN  <<RLt(c_A, Zero), RLt(c_HA, Zero), ~IsClose(ka_, k)>>

\* The three checks of check_solution_base.
BaseProblems(c, k, kwater, v) ==
    LET c_H == RDiv(kwater, v)
        c_A == RSub(c_H, v)
        c_HA == RSub(c, c_A)
        kb_ == RDiv(RMul(v, c_HA), c_A)
    IN  <<RLt(c_A, Zero), RLt(c_HA, Zero), ~IsClose(kb_, Kb(k, kwater))>>

\* w: the checks start from w = 0 and each failed check adds 1.
CountProblems(p) == Cardinality({i \in 1..Len(p) : p[i]})

\* Bug variant: the acid check warns whatever print_warning is.
CheckSolutionAcidLoud(c, k, kwater, v, print_warning) ==
    LET n == CountProblems(AcidProblems(c, k, kwater, v))
    IN  <<n, n>>

\* check_solution_acid(c, k, kwater, v, print_warning): <<w, warnings made>>.
CheckSolutionAcid(c, k, kwater, v, print_warning) ==
    LET n == CountProblems(AcidProblems(c, k, kwater, v))
    IN  <<n, IF print_warning THEN n ELSE 0>>

\* check_solution_base(c, k, kwater, v, print_warning): <<w, warnings made>>.
CheckSolutionBase(c, k, kwater, v, print_warning) ==
    LET n == CountProblems(BaseProblems(c, k, kwater, v))
    IN  <<n, IF print_warning THEN n ELSE 0>>

\* Bug variant: one problem is tolerated.
NeedsFallbackAboveOne(n) == n > 1

\* if w > 0:
NeedsFallback(n) == n > 0

\* Arguments of the calls the model makes.
Concentrations == {Q(n, Den) : n \in 0..MaxNum}
AcidConstants == {Q(n, Den) : n \in 1..MaxNum}
WaterConstants == {Q(n, Den) : n \in 0..MaxNum}
ApproxConcentrations == {Q(n, Den) : n \in (-MaxNum)..MaxNum}
ApproxAcidConstants == {Q(n, Den) : n \in (-MaxNum)..MaxNum}

PhInit ==
    /\ fp \in {"exact", "lo", "hi"}
    /\ order \in Perms
    /\ pc = "idle"
    /\ fn = ""
    /\ c_ha_zero = None /\ ka = None /\ kw = None
    /\ roots_h = None /\ x_h = None /\ w = 0
    /\ roots_oh = None /\ x_oh = None /\ wb = 0
    /\ nwarn = 0
    /\ x = None
    /\ ret = None
    /\ exc = ""

\* A call of calculate_ph_approximate, from its poly to its return or raise.
CallApproximate ==
    /\ pc = "idle"
    /\ \E c \in ApproxConcentrations, k \in ApproxAcidConstants :
          LET r == CalculatePhApproximate(c, k)
          IN  /\ fn' = "calculate_ph_approximate"
              /\ c_ha_zero' = c /\ ka' = k /\ kw' = None
              /\ x' = r[1] /\ ret' = r[2] /\ exc' = r[3]
    /\ pc' = "returned"
    /\ roots_h' = None /\ x_h' = None /\ w' = 0
    /\ roots_oh' = None /\ x_oh' = None /\ wb' = 0 /\ nwarn' = 0
    /\ UNCHANGED <<fp, order, dlvars, newvars>>

\* calculate_ph_full is entered: poly_h, np.roots and the positive root
\* (IndexError when the mask leaves nothing).
FullSolveAcid ==
    /\ pc = "idle"
    /\ \E c \in Concentrations, k \in AcidConstants, kwater \in WaterConstants :
          LET roots == NpRoots(PolyH(c, k, kwater))
              pos == Positive(roots)
          IN  /\ fn' = "calculate_ph_full"
              /\ c_ha_zero' = c /\ ka' = k /\ kw' = kwater
              /\ roots_h' = roots
              /\ IF pos = <<>>
                 THEN /\ x_h' = None
                      /\ exc' = "IndexError"
                      /\ pc' = "returned"
                 ELSE /\ x_h' = pos[1]
                      /\ exc' = ""
                      /\ pc' = "check"
    /\ w' = 0 /\ roots_oh' = None /\ x_oh' = None /\ wb' = 0 /\ nwarn' = 0
    /\ x' = None /\ ret' = None
    /\ UNCHANGED <<fp, order, dlvars, newvars>>

\* w = check_solution_acid(c_ha_zero, ka, kw, x_h, print_warning=False)
FullCheckAcid ==
    /\ pc = "check"
    /\ LET r == CheckSolutionAcid(c_ha_zero, ka, kw, x_h, FALSE)
       IN  /\ w' = r[1]
           /\ nwarn' = nwarn + r[2]
    /\ pc' = "branch"
    /\ UNCHANGED <<fp, order, fn, c_ha_zero, ka, kw, roots_h, x_h, roots_oh,
                   x_oh, wb, x, ret, exc, dlvars, newvars>>

\* if w > 0: the base equation is solved and checked with warnings on.
FullFallback ==
    /\ pc = "branch"
    /\ NeedsFallback(w)
    /\ LET roots == NpRoots(PolyOH(c_ha_zero, ka, kw))
           pos == Positive(roots)
       IN  /\ roots_oh' = roots
           /\ IF pos = <<>>
              THEN /\ exc' = "IndexError"
                   /\ pc' = "returned"
                   /\ UNCHANGED <<x_oh, x_h, wb, nwarn>>
              ELSE LET r == CheckSolutionBase(c_ha_zero, ka, kw, pos[1], TRUE)
                   IN  /\ x_oh' = pos[1]
                       /\ x_h' = RDiv(kw, pos[1])
                       /\ wb' = r[1]
                       /\ nwarn' = nwarn + r[2]
                       /\ pc' = "return"
                       /\ UNCHANGED exc
    /\ UNCHANGED <<fp, order, fn, c_ha_zero, ka, kw, roots_h, w, x, ret, dlvars, newvars>>

\* w = 0: the branch is skipped.
FullNoFallback ==
    /\ pc = "branch"
    /\ ~NeedsFallback(w)
    /\ pc' = "return"
    /\ UNCHANGED <<fp, order, fn, c_ha_zero, ka, kw, roots_h, x_h, w, roots_oh,
                   x_oh, wb, nwarn, x, ret, exc, dlvars, newvars>>

\* return -np.log10(x_h)
FullReturn ==
    /\ pc = "return"
    /\ ret' = NegLog10(x_h)
    /\ pc' = "returned"
    /\ UNCHANGED <<fp, order, fn, c_ha_zero, ka, kw, roots_h, x_h, w, roots_oh,
                   x_oh, wb, nwarn, x, exc, dlvars, newvars>>

\* The caller takes the result and the call's frame is gone; the next call
\* may start.
Finish ==
    /\ pc = "returned"
    /\ pc' = "idle"
    /\ fn' = ""
    /\ c_ha_zero' = None /\ ka' = None /\ kw' = None
    /\ roots_h' = None /\ x_h' = None /\ w' = 0
    /\ roots_oh' = None /\ x_oh' = None /\ wb' = 0
    /\ nwarn' = 0
    /\ x' = None
    /\ ret' = None
    /\ exc' = ""
    /\ UNCHANGED <<fp, order, dlvars, newvars>>

PhNext ==
    \/ CallApproximate
    \/ FullSolveAcid
    \/ FullCheckAcid
    \/ FullFallback
    \/ FullNoFallback
    \/ FullReturn
    \/ Finish

-----------------------------------------------------------------------------
(* download_data_file(url, output_file), for one output_file.               *)

NoFile == <<>>
OutputFile == <<"esol.csv">>

\* response.text
Texts == {"", "a", "b"}
\* response.status_code
Statuses == {200, 204, 304, 404, 500}
Responses == {<<s, t>> : s \in Statuses, t \in Texts}

\* Bug variant: the existing file is not seen.
IsFileNever(f) == FALSE

\* pathlib.Path(output_file).is_file()
IsFile(f) == f # NoFile

\* Bug variant: only a 5xx status counts as a failure.
ResponseOkBelow500(r) == r[1] < 500

\* if response: a requests.Response is falsy for a 4xx or 5xx status.
ResponseOk(r) == ~(400 <= r[1] /\ r[1] < 600)

DlIdle ==
    /\ dpc = "idle"
    /\ response = None
    /\ dret = None
    /\ dexc = ""
    /\ sessions = 0 /\ requests = 0 /\ writes = 0 /\ calls = 0
    /\ fs_call = fs /\ req_call = 0 /\ ses_call = 0
    /\ fs_init = fs

\* Before the first call output_file is absent or a file of any content.
DlInit ==
    /\ fs \in {NoFile} \cup {<<t>> : t \in Texts}
    /\ DlIdle

\* The call starts: an existing file is returned at once.
DownloadEnter ==
    /\ dpc = "idle"
    /\ calls < MaxCalls
    /\ calls' = calls + 1
    /\ fs_call' = fs /\ req_call' = requests /\ ses_call' = sessions
    /\ response' = None
    /\ dexc' = ""
    /\ IF IsFile(fs)
       THEN dret' = OutputFile /\ dpc' = "returned"
       ELSE dret' = None /\ dpc' = "session"
    /\ UNCHANGED <<fs, sessions, requests, writes, fs_init, phvars, newvars>>

\* session = requests.Session(); response = session.get(url, ...)
DownloadGet ==
    /\ dpc = "session"
    /\ sessions' = sessions + 1
    /\ requests' = requests + 1
    /\ \E r \in Responses : response' = r
    /\ dpc' = "respond"
    /\ UNCHANGED <<fs, dret, dexc, writes, calls, fs_call, req_call, ses_call,
                   fs_init, phvars, newvars>>

\* session.get raises (no connection): the call ends with the exception.
DownloadGetRaises ==
    /\ dpc = "session"
    /\ sessions' = sessions + 1
    /\ requests' = requests + 1
    /\ dexc' = "ConnectionError"
    /\ dpc' = "returned"
    /\ UNCHANGED <<fs, response, dret, writes, calls, fs_call, req_call,
                   ses_call, fs_init, phvars, newvars>>

\* if response: the text is written to output_file, which is returned.
DownloadWrite ==
    /\ dpc = "respond"
    /\ ResponseOk(response)
    /\ fs' = <<response[2]>>
    /\ writes' = writes + 1
    /\ dret' = OutputFile
    /\ dpc' = "returned"
    /\ UNCHANGED <<response, dexc, sessions, requests, calls, fs_call,
                   req_call, ses_call, fs_init, phvars, newvars>>

\* else: None is returned.
DownloadRefused ==
    /\ dpc = "respond"
    /\ ~ResponseOk(response)
    /\ dret' = None
    /\ dpc' = "returned"
    /\ UNCHANGED <<fs, response, dexc, sessions, requests, writes, calls,
                   fs_call, req_call, ses_call, fs_init, phvars, newvars>>

\* The caller takes the result; the next call may start.
DownloadFinish ==
    /\ dpc = "returned"
    /\ dpc' = "idle"
    /\ UNCHANGED <<fs, response, dret, dexc, sessions, requests, writes,
                   calls, fs_call, req_call, ses_call, fs_init, phvars, newvars>>

DlNext ==
    \/ DownloadEnter
    \/ DownloadGet
    \/ DownloadGetRaises
    \/ DownloadWrite
    \/ DownloadRefused
    \/ DownloadFinish

-----------------------------------------------------------------------------
(* The ESOL notebook, preprocessing step 3: remove highly correlated       *)
(* columns.  The columns are named by their position before the cell; a    *)
(* correlation is an exact rational, and a matrix is a function on pairs.  *)

\* The correlations the columns may have: below, at and above the threshold,
\* of either sign.
CorrValues == {Q(-49, 50), Q(-39, 40), Zero, Q(39, 40), Q(49, 50)}

Pairs(n) == (1..n) \X (1..n)

\* A correlation matrix is symmetric with ones on the diagonal.
CorrMatrices(n) ==
    {[p \in Pairs(n) |->
        IF p[1] = p[2] THEN One
        ELSE IF p[1] < p[2] THEN m[p] ELSE m[<<p[2], p[1]>>]] :
     m \in [{p \in Pairs(n) : p[1] < p[2]} -> CorrValues]}

\* DataFrame.abs().
FrameAbs(m) == [p \in DOMAIN m |-> RAbs(m[p])]

\* Bug variant: the mask starts one diagonal too high (k=2).
TriuSecond(p) == p[1] + 1 < p[2]

\* np.triu(np.ones(corr.shape), k=1).astype(bool): row p[1], column p[2].
Triu(p) == p[1] < p[2]

\* DataFrame.where(mask): NaN where the mask is False.
FrameWhere(m) == [p \in DOMAIN m |-> IF Triu(p) THEN m[p] ELSE NaN]

\* The threshold of the list comprehension; a comparison with NaN is False.
CorrThreshold == Q(975, 1000)

AboveThreshold(v) == IsFinite(v) /\ RLt(CorrThreshold, v)

\* any(upper[column] > 0.975)
AnyAbove(m, column, n) == \E i \in 1..n : AboveThreshold(m[<<i, column>>])

Elems(s) == {s[i] : i \in 1..Len(s)}

\* DataFrame.drop(labels, axis=1): the other columns, in their order.
DropColumns(columns, labels) ==
    LET Kept(c) == c \notin Elems(labels) IN SelectSeq(columns, Kept)

CorIdle ==
    /\ cpc = "start"
    /\ corr = None
    /\ upper = None
    /\ to_drop = <<>>

CorInit ==
    /\ \E n \in 1..MaxCols :
          /\ rd_corr \in CorrMatrices(n)
          /\ rd_columns = [i \in 1..n |-> i]
    /\ CorIdle

\* No column at all: the cell is not run.
CorNone ==
    /\ rd_corr = [p \in Pairs(1) |-> One]
    /\ rd_columns = <<1>>
    /\ CorIdle

\* corr = rdkit_descriptors.corr().abs()
CorrAbs ==
    /\ cpc = "start"
    /\ corr' = FrameAbs(rd_corr)
    /\ cpc' = "corr"
    /\ UNCHANGED <<rd_corr, rd_columns, upper, to_drop, notcor>>

\* upper = corr.where(np.triu(np.ones(corr.shape), k=1).astype(bool))
CorrUpper ==
    /\ cpc = "corr"
    /\ upper' = FrameWhere(corr)
    /\ cpc' = "upper"
    /\ UNCHANGED <<rd_corr, rd_columns, corr, to_drop, notcor>>

\* to_drop = [column for column in upper.columns if any(upper[column] > 0.975)]
CorrToDrop ==
    /\ cpc = "upper"
    /\ LET Drop(c) == AnyAbove(upper, c, Len(rd_columns))
       IN  to_drop' = SelectSeq(rd_columns, Drop)
    /\ cpc' = "to_drop"
    /\ UNCHANGED <<rd_corr, rd_columns, corr, upper, notcor>>

\* if len(to_drop) > 0: rdkit_descriptors.drop(labels=to_drop, axis=1, inplace=True)
CorrDrop ==
    /\ cpc = "to_drop"
    /\ Len(to_drop) > 0
    /\ rd_columns' = DropColumns(rd_columns, to_drop)
    /\ cpc' = "done"
    /\ UNCHANGED <<rd_corr, corr, upper, to_drop, notcor>>

\* len(to_drop) = 0: nothing is dropped.
CorrKeep ==
    /\ cpc = "to_drop"
    /\ Len(to_drop) = 0
    /\ cpc' = "done"
    /\ UNCHANGED <<rd_corr, rd_columns, corr, upper, to_drop, notcor>>

CorNext ==
    \/ CorrAbs
    \/ CorrUpper
    \/ CorrToDrop
    \/ CorrDrop
    \/ CorrKeep

-----------------------------------------------------------------------------
(* The ESOL notebook, preprocessing step 1: remove columns with nan/inf.   *)
(* A cell is the text of the Python value it holds.                        *)

\* What a cell of the descriptor table can hold: two floats, NaN, the two
\* infinities and a text that is no number.
CommonCell == "1.0"
OddCells == {"0.0", "nan", "inf", "-inf", "abc"}

\* The table of MaxCols columns and MaxRows rows whose cells at the positions
\* odd are those of f and CommonCell elsewhere.
Positions == (1..MaxCols) \X (1..MaxRows)

Table(odd, f) ==
    [c \in 1..MaxCols |-> [r \in 1..MaxRows |->
        IF <<c, r>> \in odd THEN f[<<c, r>>] ELSE CommonCell]]

\* pd.to_numeric(..., errors="coerce"): what does not parse becomes NaN.
ToNumeric(v) == IF v = "abc" THEN "nan" ELSE v

\* Bug variant: only +inf is replaced.
ReplacePlusInf(v) == IF v = "inf" THEN "nan" ELSE v

\* .replace([np.inf, -np.inf], np.nan)
ReplaceInf(v) == IF v \in {"inf", "-inf"} THEN "nan" ELSE v

\* DataFrame.apply(pd.to_numeric, ...) and DataFrame.replace, cell by cell.
MapFrame(method, data) ==
    [c \in DOMAIN data |-> [r \in DOMAIN data[c] |->
        IF method = "apply" THEN ToNumeric(data[c][r])
                            ELSE ReplaceInf(data[c][r])]]

\* .dropna(axis=1): the columns without a NaN, in their order.
Dropna(columns, data) ==
    LET Full(c) == \A r \in DOMAIN data[c] : data[c][r] # "nan"
    IN  SelectSeq(columns, Full)

NanIdle ==
    /\ npc = "start"
    /\ fr_columns = [i \in 1..MaxCols |-> i]
    /\ fr_first = fr_data
    /\ columns_before = {}
    /\ diff = {}

\* At most MaxOdd cells of the table differ from CommonCell.
NanInit ==
    /\ \E odd \in {o \in SUBSET Positions : Cardinality(o) <= MaxOdd} :
          \E f \in [odd -> OddCells] : fr_data = Table(odd, f)
    /\ NanIdle

\* The cell is not run.
NanNone == fr_data = [c \in 1..MaxCols |-> [r \in 1..MaxRows |-> CommonCell]] /\ NanIdle

\* columns_before = ...; rdkit_descriptors = rdkit_descriptors.apply(pd.to_numeric, ...)
NanToNumeric ==
    /\ npc = "start"
    /\ columns_before' = Elems(fr_columns)
    /\ fr_data' = MapFrame("apply", fr_data)
    /\ npc' = "numeric"
    /\ UNCHANGED <<fr_columns, fr_first, diff, notnan>>

\* rdkit_descriptors = rdkit_descriptors.replace([np.inf, -np.inf], np.nan)
NanReplace ==
    /\ npc = "numeric"
    /\ fr_data' = MapFrame("replace", fr_data)
    /\ npc' = "replaced"
    /\ UNCHANGED <<fr_columns, fr_first, columns_before, diff, notnan>>

\* rdkit_descriptors = rdkit_descriptors.dropna(axis=1)
NanDropna ==
    /\ npc = "replaced"
    /\ fr_columns' = Dropna(fr_columns, fr_data)
    /\ npc' = "dropped"
    /\ UNCHANGED <<fr_data, fr_first, columns_before, diff, notnan>>

\* columns_after = ...; diff = columns_before - columns_after
NanDiff ==
    /\ npc = "dropped"
    /\ diff' = columns_before \ Elems(fr_columns)
    /\ npc' = "done"
    /\ UNCHANGED <<fr_columns, fr_data, fr_first, columns_before, notnan>>

NanNext ==
    \/ NanToNumeric
    \/ NanReplace
    \/ NanDropna
    \/ NanDiff

-----------------------------------------------------------------------------
(* The molecular-orbital notebook: find_homo_lumo.  An energy is a         *)
(* rational, float("inf") is <<1, 0>> and -float("inf") is <<-1, 0>>; an   *)
(* index is <<i>>, counted from 0, and None is <<>>.                       *)

PlusInf == <<1, 0>>
MinusInf == <<-1, 0>>

\* The orbitals: three energies, empty or doubly occupied.
Orbitals == {<<Q(e, 1), occ>> : e \in {-1, 0, 1}, occ \in {0, 2}}

OrbitalLists == UNION {[1..n -> Orbitals] : n \in 0..MaxOrbitals}

\* Bug variant: a tie replaces the orbital found before.
NotBelow(a, b) == RLe(b, a)

\* energy > homo, lumo > energy
Above(a, b) == RLt(b, a)

\* lumo = float("inf"); lumo_idx = None; homo = -float("inf"); homo_idx = None
HomIdle ==
    /\ hi = 0
    /\ lumo = PlusInf
    /\ lumo_idx = None
    /\ homo = MinusInf
    /\ homo_idx = None
    /\ hret = None

HomInit == mo \in OrbitalLists /\ HomIdle

\* find_homo_lumo is not called.
HomNone == mo = <<>> /\ HomIdle

\* One pass of the loop, for the orbital of index hi.
HomoLoop ==
    /\ hret = None
    /\ hi < Len(mo)
    /\ LET energy == mo[hi + 1][1]
           occ == mo[hi + 1][2]
           higher == occ > 0 /\ Above(energy, homo)
           lower == occ = 0 /\ Above(lumo, energy)
       IN  /\ homo' = IF higher THEN energy ELSE homo
           /\ homo_idx' = IF higher THEN <<hi>> ELSE homo_idx
           /\ lumo' = IF lower THEN energy ELSE lumo
           /\ lumo_idx' = IF lower THEN <<hi>> ELSE lumo_idx
    /\ hi' = hi + 1
    /\ UNCHANGED <<mo, hret, nothom>>

\* return homo, homo_idx, lumo, lumo_idx
HomoReturn ==
    /\ hret = None
    /\ hi = Len(mo)
    /\ hret' = <<homo, homo_idx, lumo, lumo_idx>>
    /\ UNCHANGED <<mo, hi, homo, homo_idx, lumo, lumo_idx, nothom>>

HomNext ==
    \/ HomoLoop
    \/ HomoReturn

-----------------------------------------------------------------------------
(* The fingerprint notebook: get_environment.  Atoms are numbered from 1   *)
(* and bonds by their position in mol_bonds.                               *)

\* The elements of a set of numbers, ascending: list(set) of small integers.
RECURSIVE Sorted(_)
Sorted(S) ==
    IF S = {} THEN <<>>
    ELSE LET m == CHOOSE v \in S : \A u \in S : v <= u
         IN  <<m>> \o Sorted(S \ {m})

\* The molecules: any set of bonds between the atoms, listed in the order of
\* their ends.
BondLists ==
    LET Key(b) == b[1] * (MaxAtoms + 1) + b[2]
        all == {b \in (1..MaxAtoms) \X (1..MaxAtoms) : b[1] < b[2]}
    IN  {LET keys == Sorted({Key(b) : b \in S})
         IN  [k \in 1..Len(keys) |-> CHOOSE b \in S : Key(b) = keys[k]] :
         S \in SUBSET all}

\* The bonds of atom a, as pairs <<a, bond>>: mol.getAtomBonds.
AtomBonds(bonds, a, bondsIn) ==
    LET At(k) == a \in {bonds[k][1], bonds[k][2]} /\ k \notin bondsIn
        idx == SelectSeq([k \in 1..Len(bonds) |-> k], At)
    IN  [k \in 1..Len(idx) |-> <<a, idx[k]>>]

\* One layer of the search: every bond of nbrStack that is not yet in the
\* environment joins it, and the bonds of its far atom go to the next layer.
RECURSIVE EnvLayer(_, _, _, _, _)
EnvLayer(bonds, nbrStack, bondsIn, res, nextLayer) ==
    IF nbrStack = <<>> THEN <<bondsIn, res, nextLayer>>
    ELSE LET startAtom == Head(nbrStack)[1]
             bondIdx == Head(nbrStack)[2]
             oAtom == IF bonds[bondIdx][1] = startAtom
                      THEN bonds[bondIdx][2] ELSE bonds[bondIdx][1]
             in2 == bondsIn \cup {bondIdx}
         IN  IF bondIdx \in bondsIn
             THEN EnvLayer(bonds, Tail(nbrStack), bondsIn, res, nextLayer)
             ELSE EnvLayer(bonds, Tail(nbrStack), in2, Append(res, bondIdx),
                           nextLayer \o AtomBonds(bonds, oAtom, in2))

\* The layers i+1..n of the search; the result is cleared when the layers run
\* out before the radius asked for is reached.
RECURSIVE EnvLayers(_, _, _, _, _, _)
EnvLayers(bonds, n, i, nbrStack, bondsIn, res) ==
    IF i = n THEN res
    ELSE IF nbrStack = <<>> THEN <<>>
    ELSE LET r == EnvLayer(bonds, nbrStack, bondsIn, res, <<>>)
         IN  EnvLayers(bonds, n, i + 1, r[3], r[1], r[2])

\* Chem.FindAtomEnvironmentOfRadiusN(molecule, radius, center)
FindAtomEnvironmentOfRadiusN(bonds, n, a) ==
    EnvLayers(bonds, n, 0, AtomBonds(bonds, a, {}), {}, <<>>)

\* get_atom_colors(molecule, atoms, centers): a colour name for each atom.
GetAtomColors(kind, atoms, centers) ==
    [a \in Elems(atoms) |->
        IF a \in centers THEN "Center atom"
        ELSE IF kind = "aromatic" THEN "Aromatic atom"
        ELSE IF kind = "ring" THEN "Atom in a ring"
        ELSE "Other atoms"]

\* get_bond_colors(bonds)
GetBondColors(bonds) == [b \in Elems(bonds) |-> "Bonds"]

\* Bug variant: only the begin atom of a bond is collected.
EnvironmentAtomsBegin(bonds, c, e) == {c} \cup {bonds[e[k]][1] : k \in 1..Len(e)}

\* atoms = set([center]); for bond in env: atoms.add(begin); atoms.add(end)
EnvironmentAtoms(bonds, c, e) ==
    {c} \cup UNION {{bonds[e[k]][1], bonds[e[k]][2]} : k \in 1..Len(e)}

EnvIdle ==
    /\ epc = "call"
    /\ env = <<>>
    /\ eret = None
    /\ eexc = ""

EnvInit ==
    /\ mol_bonds \in BondLists
    /\ mol_conf \in BOOLEAN
    /\ mol_kind \in {"aromatic", "ring", "other"}
    /\ center \in 1..MaxAtoms
    /\ radius \in 0..MaxRadius
    /\ EnvIdle

\* get_environment is not called.
EnvNone ==
    /\ mol_bonds = <<>>
    /\ mol_conf = TRUE
    /\ mol_kind = "other"
    /\ center = 1
    /\ radius = 0
    /\ EnvIdle

\* if not molecule.GetNumConformers(): rdDepictor.Compute2DCoords(mol)
\* The notebook does not import rdDepictor: the name does not exist.
EnvCoordsRaises ==
    /\ epc = "call"
    /\ ~mol_conf
    /\ eexc' = "NameError"
    /\ epc' = "raised"
    /\ UNCHANGED <<mol_bonds, mol_conf, mol_kind, center, radius, env, eret, notenv>>

\* env = Chem.FindAtomEnvironmentOfRadiusN(molecule, radius, center)
EnvFind ==
    /\ epc = "call"
    /\ mol_conf
    /\ env' = FindAtomEnvironmentOfRadiusN(mol_bonds, radius, center)
    /\ epc' = "env"
    /\ UNCHANGED <<mol_bonds, mol_conf, mol_kind, center, radius, eret, eexc, notenv>>

\* The loop over env, the two lists, the two colour maps and the return.
EnvReturn ==
    /\ epc = "env"
    /\ LET atoms == Sorted(EnvironmentAtoms(mol_bonds, center, env))
           bonds == Sorted(Elems(env))
       IN  eret' = <<atoms, bonds, GetAtomColors(mol_kind, atoms, {center}),
                     GetBondColors(bonds)>>
    /\ epc' = "returned"
    /\ UNCHANGED <<mol_bonds, mol_conf, mol_kind, center, radius, env, eexc, notenv>>

EnvNext ==
    \/ EnvCoordsRaises
    \/ EnvFind
    \/ EnvReturn

-----------------------------------------------------------------------------
(* The molecule explorer.  A molecule is <<n, smiles>>: the n-th object     *)
(* made, and what it was parsed from; its 3D copy is <<n, smiles, "3d">>.   *)

\* The tables: names may repeat, and "?" is a text that is no SMILES.
ExplorerTables ==
    UNION {[1..n -> {"a", "b"} \X {"C", "CC", "?"}] : n \in 0..MaxMolecules}

\* Chem.MolFromSmiles: None for what does not parse.
MolFromSmiles(smilei, n) == IF smilei = "?" THEN None ELSE <<n, smilei>>

\* molecule_to_3d(molecule): a copy with hydrogens and 3D coordinates.
MoleculeTo3d(molecule) == <<molecule[1], molecule[2], "3d">>

\* Bug variant: the molecule is put in front of the list.
ListPrepend(list, item) == <<item>> \o list

\* molecules.append(mol)
ListAppend(list, item) == Append(list, item)

\* molecules_from_smiles(smiles), from the i-th SMILES on: the list and the
\* exception raised ("" when none); rdCoordGen.AddCoords(None) raises.
RECURSIVE MoleculesFromSmiles(_, _, _)
MoleculesFromSmiles(smiles, i, list) ==
    IF i > Len(smiles) THEN <<list, "">>
    ELSE LET mol == MolFromSmiles(smiles[i], i)
         IN  IF mol = None THEN <<list, "ArgumentError">>
             ELSE MoleculesFromSmiles(smiles, i + 1, ListAppend(list, mol))

\* view_2d returns its argument, view_3d a view of its MolBlock.
View(m, molecule) ==
    IF m = "2d" THEN <<molecule, molecule>>
    ELSE <<molecule, <<"py3Dmol.view", molecule[1], molecule[2]>>>>

ExpIdle ==
    /\ names = <<>>
    /\ molecules = <<>>
    /\ molecules_3d = <<>>
    /\ mode = ""
    /\ xpc = "start"
    /\ options = <<>>
    /\ index = 0
    /\ viewed = None
    /\ xexc = ""

ExpInit == table \in ExplorerTables /\ ExpIdle

\* The explorer is not run.
ExpNone == table = <<>> /\ ExpIdle

\* names = ...; smiles = ...; molecules = molecules_from_smiles(smiles);
\* molecules_3d = [molecule_to_3d(i) for i in molecules]
ExpLoad ==
    /\ xpc = "start"
    /\ LET smiles == [i \in 1..Len(table) |-> table[i][2]]
           r == MoleculesFromSmiles(smiles, 1, <<>>)
       IN  /\ names' = [i \in 1..Len(table) |-> table[i][1]]
           /\ IF r[2] = ""
              THEN /\ molecules' = r[1]
                   /\ molecules_3d' = [i \in 1..Len(r[1]) |-> MoleculeTo3d(r[1][i])]
                   /\ xpc' = "loaded"
                   /\ xexc' = ""
              ELSE /\ xexc' = r[2]
                   /\ xpc' = "raised"
                   /\ UNCHANGED <<molecules, molecules_3d>>
    /\ UNCHANGED <<table, mode, options, index, viewed, notexp>>

\* A dropdown cell: the options, Dropdown(options, value=...[0]) and interact,
\* which calls the view function with the dropdown's value.
ExpDropdown ==
    /\ xpc \in {"loaded", "shown", "selected"}
    /\ \E m \in {"2d", "3d"} :
         LET values == IF m = "2d" THEN molecules ELSE molecules_3d
             n == IF Len(names) < Len(values) THEN Len(names) ELSE Len(values)
         IN  IF Len(values) = 0
             THEN /\ xexc' = "IndexError"
                  /\ xpc' = "raised"
                  /\ UNCHANGED <<mode, options, index, viewed>>
             ELSE /\ mode' = m
                  /\ options' = [i \in 1..n |-> <<names[i], values[i]>>]
                  /\ index' = CHOOSE i \in 1..n : values[i] = values[1]
                  /\ viewed' = View(m, values[1])
                  /\ xpc' = "shown"
                  /\ xexc' = ""
    /\ UNCHANGED <<table, names, molecules, molecules_3d, notexp>>

\* The user selects an option: interact calls the view function again.
ExpSelect ==
    /\ xpc \in {"shown", "selected"}
    /\ \E i \in 1..Len(options) :
         /\ index' = i
         /\ viewed' = View(mode, options[i][2])
    /\ xpc' = "selected"
    /\ UNCHANGED <<table, names, molecules, molecules_3d, mode, options, xexc,
                   notexp>>

ExpNext ==
    \/ ExpLoad
    \/ ExpDropdown
    \/ ExpSelect

-----------------------------------------------------------------------------
(* The ESOL notebook: split_and_scale.  X has one column.  A scaled value  *)
(* (v - mean_) / scale_ is kept as <<"z", v - mean_, scale_ squared>>, so  *)
(* that no square root is taken.                                           *)

\* test_size=0.33, in hundredths.
TestPercent == 33

\* train_test_split: n_test = ceil(test_size * n_samples), the rest is train.
NTest(n) == (TestPercent * n + 99) \div 100

\* The permutations of 1..n.
Shuffles(n) ==
    {p \in [1..n -> 1..n] : \A i \in 1..n : \A j \in 1..n : i # j => p[i] # p[j]}

\* The test rows are the first n_test of the permutation.
TestIndices(p) == SubSeq(p, 1, NTest(Len(p)))

\* Bug variant: every row is a training row.
AllIndices(p) == p

\* The training rows are the rest of the permutation.
TrainIndices(p) == SubSeq(p, NTest(Len(p)) + 1, Len(p))

\* A column of the rows idx of the data.
Take(data, idx, column) == [i \in 1..Len(idx) |-> Q(data[idx[i]][column], 1)]

RECURSIVE SumSeq(_, _)
SumSeq(values, i) ==
    IF i > Len(values) THEN Zero ELSE RAdd(values[i], SumSeq(values, i + 1))

\* StandardScaler().fit(values): mean_ and var_; scale_ is the root of var_,
\* and 1 where var_ is 0.
Fit(values) ==
    LET n == Q(Len(values), 1)
        mean == RDiv(SumSeq(values, 1), n)
        sq == [i \in 1..Len(values) |->
                 RMul(RSub(values[i], mean), RSub(values[i], mean))]
        var == RDiv(SumSeq(sq, 1), n)
    IN  <<mean, IF var = Zero THEN One ELSE var>>

\* scaler.transform(values)
Transform(scaler, values) ==
    [i \in 1..Len(values) |-> <<"z", RSub(values[i], scaler[1]), scaler[2]>>]

SclIdle ==
    /\ spc = "split"
    /\ X_train = <<>> /\ X_test = <<>> /\ y_train = <<>> /\ y_test = <<>>
    /\ scale_x = None /\ scale_y = None

SclInit ==
    /\ raw_data \in [1..Samples -> {0, 1} \X {0, 1}]
    /\ shuffle \in Shuffles(Samples)
    /\ SclIdle

\* split_and_scale is not called.
SclNone ==
    /\ raw_data = [i \in 1..Samples |-> <<0, 0>>]
    /\ shuffle = [i \in 1..Samples |-> i]
    /\ SclIdle

\* X_train, X_test, y_train, y_test = train_test_split(...)
ScaleSplit ==
    /\ spc = "split"
    /\ X_train' = Take(raw_data, TrainIndices(shuffle), 1)
    /\ X_test' = Take(raw_data, TestIndices(shuffle), 1)
    /\ y_train' = Take(raw_data, TrainIndices(shuffle), 2)
    /\ y_test' = Take(raw_data, TestIndices(shuffle), 2)
    /\ spc' = "fit_x"
    /\ UNCHANGED <<raw_data, shuffle, scale_x, scale_y, notscl>>

\* scale_x.fit(X_train); scale_y.fit(y_train)
ScaleFit ==
    /\ spc \in {"fit_x", "fit_y"}
    /\ IF spc = "fit_x"
       THEN scale_x' = Fit(X_train) /\ spc' = "fit_y" /\ UNCHANGED scale_y
       ELSE scale_y' = Fit(y_train) /\ spc' = "X_train" /\ UNCHANGED scale_x
    /\ UNCHANGED <<raw_data, shuffle, X_train, X_test, y_train, y_test, notscl>>

\* The four transforms, in the order of the code.
ScaleTransform ==
    /\ spc \in {"X_train", "X_test", "y_train", "y_test"}
    /\ X_train' = IF spc = "X_train" THEN Transform(scale_x, X_train) ELSE X_train
    /\ X_test' = IF spc = "X_test" THEN Transform(scale_x, X_test) ELSE X_test
    /\ y_train' = IF spc = "y_train" THEN Transform(scale_y, y_train) ELSE y_train
    /\ y_test' = IF spc = "y_test" THEN Transform(scale_y, y_test) ELSE y_test
    /\ spc' = CASE spc = "X_train" -> "X_test"
                [] spc = "X_test" -> "y_train"
                [] spc = "y_train" -> "y_test"
                [] OTHER -> "return"
    /\ UNCHANGED <<raw_data, shuffle, scale_x, scale_y, notscl>>

\* return X_train, X_test, y_train, y_test, scale_x, scale_y
ScaleReturn ==
    /\ spc = "return"
    /\ spc' = "returned"
    /\ UNCHANGED <<raw_data, shuffle, X_train, X_test, y_train, y_test, scale_x,
                   scale_y, notscl>>

SclNext ==
    \/ ScaleSplit
    \/ ScaleFit
    \/ ScaleTransform
    \/ ScaleReturn

-----------------------------------------------------------------------------
(* Specifications.                                                          *)

\* The pH notebook alone: no download runs.
NewIdle == CorNone /\ NanNone /\ HomNone /\ EnvNone /\ ExpNone /\ SclNone

PhOnlyInit == PhInit /\ fs = NoFile /\ DlIdle /\ NewIdle
SpecPh == PhOnlyInit /\ [][PhNext]_vars

\* The ESOL notebook's download alone: no pH call runs.
DlOnlyInit ==
    /\ PhInit
    /\ fp = "exact"
    /\ order = [i \in 1..3 |-> i]
    /\ DlInit
    /\ NewIdle
SpecDl == DlOnlyInit /\ [][DlNext]_vars

\* No pH call and no download runs.
OldIdle ==
    /\ PhInit
    /\ fp = "exact"
    /\ order = [i \in 1..3 |-> i]
    /\ fs = NoFile
    /\ DlIdle

\* The correlation filter of the ESOL notebook alone.
CorOnlyInit ==
    OldIdle /\ CorInit /\ NanNone /\ HomNone /\ EnvNone /\ ExpNone /\ SclNone
SpecCor == CorOnlyInit /\ [][CorNext]_vars

\* The nan/inf filter of the ESOL notebook alone.
NanOnlyInit ==
    OldIdle /\ CorNone /\ NanInit /\ HomNone /\ EnvNone /\ ExpNone /\ SclNone
SpecNan == NanOnlyInit /\ [][NanNext]_vars

\* find_homo_lumo alone.
HomOnlyInit ==
    OldIdle /\ CorNone /\ NanNone /\ HomInit /\ EnvNone /\ ExpNone /\ SclNone
SpecHom == HomOnlyInit /\ [][HomNext]_vars

\* get_environment alone.
EnvOnlyInit ==
    OldIdle /\ CorNone /\ NanNone /\ HomNone /\ EnvInit /\ ExpNone /\ SclNone
SpecEnv == EnvOnlyInit /\ [][EnvNext]_vars

\* The molecule explorer alone.
ExpOnlyInit ==
    OldIdle /\ CorNone /\ NanNone /\ HomNone /\ EnvNone /\ ExpInit /\ SclNone
SpecExp == ExpOnlyInit /\ [][ExpNext]_vars

\* split_and_scale alone.
SclOnlyInit ==
    OldIdle /\ CorNone /\ NanNone /\ HomNone /\ EnvNone /\ ExpNone /\ SclInit
SpecScl == SclOnlyInit /\ [][SclNext]_vars

Init ==
    /\ PhInit /\ DlInit /\ CorInit /\ NanInit /\ HomInit /\ EnvInit /\ ExpInit
    /\ SclInit
Next ==
    \/ PhNext \/ DlNext \/ CorNext \/ NanNext \/ HomNext \/ EnvNext \/ ExpNext
    \/ SclNext
Spec == Init /\ [][Next]_vars

-----------------------------------------------------------------------------
(* Properties of calculate_ph_full.                                         *)

InFull == fn = "calculate_ph_full"
InApproximate == fn = "calculate_ph_approximate"

\* The positive root taken from the [H+] cubic (x_h before any fallback).
AcidRoot == Positive(roots_h)[1]

\* check_solution_acid has a problem with the acid root: negative [A-],
\* negative [HA], or a recomputed Ka that is not close to ka.
AcidRootHasProblem ==
    LET c_OH == RDiv(kw, AcidRoot)
        c_A == RSub(AcidRoot, c_OH)
        c_HA == RSub(c_ha_zero, c_A)
    IN  \/ RLt(c_A, Zero)
        \/ RLt(c_HA, Zero)
        \/ ~IsClose(RDiv(RMul(AcidRoot, c_A), c_HA), ka)

\* C1: the [H+] cubic is solved first and its positive root taken; the [OH-]
\* cubic is solved if and only if check_solution_acid has a problem with that
\* root, and then the call returns the pH of kw over the positive root of the
\* [OH-] cubic; with no problem it returns the pH of the acid root and the
\* [OH-] cubic is never solved.
C1_FallbackIffProblem ==
    InFull =>
      /\ pc \in {"check", "branch"} =>
            /\ roots_oh = None
            /\ x_h = AcidRoot
      /\ (pc \in {"return", "returned"} /\ Positive(roots_h) # <<>>) =>
            (roots_oh # None <=> AcidRootHasProblem)
      /\ (pc = "returned" /\ exc = "") =>
            IF AcidRootHasProblem
            THEN ret = NegLog10(RDiv(kw, Positive(roots_oh)[1]))
            ELSE ret = NegLog10(AcidRoot) /\ roots_oh = None

\* A call fell back on one problem only and returned the pH from the [OH-]
\* cubic.
C1_Witness ==
    /\ InFull
    /\ pc = "returned"
    /\ exc = ""
    /\ w = 1
    /\ roots_oh # None
    /\ ret = NegLog10(RDiv(kw, Positive(roots_oh)[1]))

\* A call found no problem and returned the pH of the acid root.
C1_WitnessNoFallback ==
    /\ InFull
    /\ pc = "returned"
    /\ exc = ""
    /\ w = 0
    /\ roots_oh = None
    /\ RSign(kw) > 0
    /\ ret = NegLog10(AcidRoot)

\* The sites of the positive roots of a polynomial.
PositiveRootSites(poly) == {p \in RootSites(poly) : p > 0}

\* C2: for ka > 0, kw > 0 and c_ha_zero >= 0 the [H+] cubic has one sign
\* change in its coefficients and exactly one positive root, so the array
\* np.roots returns holds exactly one positive entry, whatever its order, and
\* the selection finds it.
C2_OnePositiveRoot ==
    (InFull /\ RSign(kw) > 0) =>
      /\ SignChanges(PolyH(c_ha_zero, ka, kw)) = 1
      /\ Cardinality(PositiveRootSites(PolyH(c_ha_zero, ka, kw))) = 1
      /\ Len(Positive(roots_h)) = 1
      /\ \A p \in PositiveRootSites(PolyH(c_ha_zero, ka, kw)) :
            AcidRoot = ApproxRoot(PolyH(c_ha_zero, ka, kw), p)
      /\ pc \in {"check", "branch"} => x_h = AcidRoot

\* The positive root was taken from behind a non-positive first entry.
C2_Witness ==
    /\ InFull
    /\ pc = "check"
    /\ RSign(kw) > 0
    /\ RSign(c_ha_zero) > 0
    /\ ~IsPositive(roots_h[1])
    /\ ~IsPositive(roots_h[2])
    /\ x_h = roots_h[3]

IsRoot(poly, v) == RSign(PolyVal(poly, v)) = 0

\* C3: for ka > 0, kw > 0 and c_ha_zero >= 0 a positive x is a root of the
\* [H+] cubic if and only if kw / x is a root of the [OH-] cubic (checked for
\* every x and every kw / x on the grid), so a fallback from an exact acid
\* root to an exact base root returns the [H+] of the primary path.
C3_CubicsEquivalent ==
    (InFull /\ RSign(kw) > 0) =>
      LET ph == PolyH(c_ha_zero, ka, kw)
          poh == PolyOH(c_ha_zero, ka, kw)
      IN  /\ \A n \in 1 .. (RootBound(ph) * Den) :
                IsRoot(ph, Q(n, Den)) <=> IsRoot(poh, RDiv(kw, Q(n, Den)))
          /\ \A n \in 1 .. (RootBound(poh) * Den) :
                IsRoot(poh, Q(n, Den)) <=> IsRoot(ph, RDiv(kw, Q(n, Den)))
          /\ ( /\ pc = "returned"
               /\ exc = ""
               /\ roots_oh # None
               /\ IsRoot(ph, AcidRoot)
               /\ IsRoot(poh, x_oh) )
             => (x_h = AcidRoot /\ ret = NegLog10(AcidRoot))

\* A call fell back from an exact acid root to an exact base root.
C3_Witness ==
    /\ InFull
    /\ RSign(kw) > 0
    /\ pc = "returned"
    /\ exc = ""
    /\ roots_oh # None
    /\ IsRoot(PolyH(c_ha_zero, ka, kw), AcidRoot)
    /\ IsRoot(PolyOH(c_ha_zero, ka, kw), x_oh)
    /\ x_h = AcidRoot

-----------------------------------------------------------------------------
(* Properties of calculate_ph_approximate.                                  *)

\* C8 (as claimed): whenever calculate_ph_approximate does not raise, the
\* root x whose logarithm it returns is positive.
C8_ReturnedRootPositive ==
    (InApproximate /\ pc = "returned" /\ exc = "") => IsPositive(x)

\* ka^2 + 4 * ka * c_ha_zero
ClaimedDiscriminant ==
    RAdd(RMul(ka, ka), RMul(Q(4, 1), RMul(ka, c_ha_zero)))

\* C9: calculate_ph_approximate raises ValueError("No positive roots!")
\* exactly when ka^2 + 4 * ka * c_ha_zero is negative, and so never for
\* ka >= 0 and c_ha_zero >= 0.
C9_RaisesIffNegativeDiscriminant ==
    (InApproximate /\ pc = "returned") =>
      /\ exc = "ValueError: No positive roots!"
            <=> RLt(ClaimedDiscriminant, Zero)
      /\ exc \in {"", "ValueError: No positive roots!"}
      /\ (RSign(ka) >= 0 /\ RSign(c_ha_zero) >= 0) => exc = ""
      /\ exc # "" => ret = None

\* A call raised.
C9_Witness ==
    /\ InApproximate
    /\ pc = "returned"
    /\ exc = "ValueError: No positive roots!"
    /\ RLt(ClaimedDiscriminant, Zero)

\* C10: with kw = 0 the [H+] cubic is [1, ka, -ka * c_ha_zero, 0], x times
\* the quadratic of calculate_ph_approximate; for ka > 0 and c_ha_zero > 0
\* both have the same single positive root, which both routines find when
\* it is a grid value.
C10_ApproximateIsKwZeroCase ==
    (InFull /\ kw = Zero) =>
      LET ph == PolyH(c_ha_zero, ka, kw)
          pa == PolyApprox(c_ha_zero, ka)
      IN  /\ ph = <<One, ka, RNeg(RMul(ka, c_ha_zero)), Zero>>
          /\ ph = pa \o <<Zero>>
          /\ \A n \in (-RootBound(ph) * Den) .. (RootBound(ph) * Den) :
                PolyVal(ph, Q(n, Den))
                  = RMul(Q(n, Den), PolyVal(pa, Q(n, Den)))
          /\ RSign(c_ha_zero) > 0 =>
                /\ PositiveRootSites(ph) = PositiveRootSites(pa)
                /\ Cardinality(PositiveRootSites(pa)) = 1
                /\ Len(Positive(roots_h)) = 1
                /\ IsRoot(pa, ApproxRootX(pa)) =>
                      /\ IsPositive(ApproxRootX(pa))
                      /\ IsRoot(ph, ApproxRootX(pa))
                      /\ fp = "exact" => AcidRoot = ApproxRootX(pa)

\* calculate_ph_full found, for kw = 0, the root calculate_ph_approximate
\* computes.
C10_Witness ==
    /\ InFull
    /\ kw = Zero
    /\ RSign(c_ha_zero) > 0
    /\ pc = "returned"
    /\ exc = ""
    /\ w = 0
    /\ x_h = ApproxRootX(PolyApprox(c_ha_zero, ka))
    /\ ret = CalculatePhApproximate(c_ha_zero, ka)[2]

-----------------------------------------------------------------------------
(* Properties of download_data_file.                                        *)

Refused == response # None /\ response[1] >= 400 /\ response[1] < 600
Accepted == response # None /\ ~(response[1] >= 400 /\ response[1] < 600)

\* C4: a call that finds a file at output_file returns output_file, opens no
\* session, sends no request and leaves the file as it was, whatever its
\* content.
C4_ExistingFileSkipsDownload ==
    (dpc # "idle" /\ fs_call # NoFile) =>
      /\ dpc = "returned"
      /\ dret = OutputFile
      /\ dexc = ""
      /\ sessions = ses_call
      /\ requests = req_call
      /\ response = None
      /\ fs = fs_call

\* A call found an empty file and returned at once.
C4_Witness ==
    /\ dpc = "returned"
    /\ fs_call = <<"">>
    /\ dret = OutputFile
    /\ fs = <<"">>
    /\ requests = 0

\* C5: a call that finds no file and gets an unsuccessful response returns
\* None and leaves output_file absent.
C5_RefusedLeavesNoFile ==
    (fs_call = NoFile /\ Refused) =>
      /\ fs = NoFile
      /\ writes = 0
      /\ dpc = "returned" => (dret = None /\ dexc = "")

\* A call got a 404 and returned None.
C5_Witness ==
    /\ dpc = "returned"
    /\ fs_call = NoFile
    /\ Refused
    /\ response[1] = 404
    /\ dret = None
    /\ fs = NoFile

\* C6: starting with output_file absent, the first call with a successful
\* response writes the response text and returns output_file; after it no
\* call sends a request, so at most one download is written and the file
\* never changes again.
C6_State ==
    fs_init = NoFile =>
      /\ writes <= 1
      /\ (writes = 0) <=> (fs = NoFile)
      /\ (dpc = "returned" /\ Accepted) =>
            /\ fs = <<response[2]>>
            /\ dret = OutputFile
            /\ writes = 1
            /\ fs_call = NoFile

C6_Step ==
    (fs_init = NoFile /\ writes >= 1) =>
      /\ fs' = fs
      /\ requests' = requests
      /\ sessions' = sessions
      /\ writes' = writes
      /\ dpc' = "returned" => dret' = OutputFile

C6_DownloadsOnce == [](C6_State) /\ [][C6_Step]_vars

\* After two failed calls a third downloaded the file, and it is in place.
C6_Witness ==
    /\ fs_init = NoFile
    /\ calls = MaxCalls
    /\ requests = MaxCalls
    /\ dpc = "returned"
    /\ Accepted
    /\ writes = 1
    /\ fs = <<response[2]>>

\* The file was downloaded by one call and a later call skipped the download.
C6_WitnessSkip ==
    /\ fs_init = NoFile
    /\ writes = 1
    /\ requests = 1
    /\ calls = 2
    /\ dpc = "returned"
    /\ response = None
    /\ dret = OutputFile

-----------------------------------------------------------------------------
(* Properties of the correlation filter.                                    *)

CorDone == cpc = "done"

\* The absolute correlation of two columns, as the data has it.
AbsCorr(a, b) == RAbs(rd_corr[<<a, b>>])

\* C11: after the cell "Remove highly correlated columns" no two columns that
\* remain in rdkit_descriptors have an absolute correlation above 0.975,
\* whatever the correlation matrix of the columns before the cell.
C11_NoCorrelatedPairLeft ==
    CorDone =>
        \A a \in Elems(rd_columns) : \A b \in Elems(rd_columns) :
            a # b => ~RLt(Q(975, 1000), AbsCorr(a, b))

\* The cell has dropped a column, at least two columns remain, and a
\* remaining column is correlated with the dropped one only.
C11_Witness ==
    /\ CorDone
    /\ Len(to_drop) > 0
    /\ Len(rd_columns) >= 2
    /\ \E d \in Elems(to_drop) : \E a \in Elems(rd_columns) :
           RLt(Q(975, 1000), AbsCorr(a, d))

-----------------------------------------------------------------------------
(* Properties of the nan/inf filter.                                        *)

NanDone == npc = "done"

\* What the step is to remove: NaN, the infinities and what is no number.
Unfit(v) == v \in {"nan", "inf", "-inf", "abc"}

\* C12: after the cell "Remove columns with nan/inf" no remaining column holds
\* a NaN, an infinity or a non-numeric value in any row; a column is removed
\* only if it held such a value in some row; the rows of the kept columns and
\* their relative order are unchanged.
C12_OnlyUnfitColumnsRemoved ==
    NanDone =>
        /\ \A c \in Elems(fr_columns) : \A r \in DOMAIN fr_data[c] :
               ~Unfit(fr_data[c][r])
        /\ \A c \in diff : \E r \in DOMAIN fr_first[c] : Unfit(fr_first[c][r])
        /\ diff = (1..MaxCols) \ Elems(fr_columns)
        /\ \A c \in Elems(fr_columns) : fr_data[c] = fr_first[c]
        /\ \A i \in 1..Len(fr_columns) : \A j \in 1..Len(fr_columns) :
               i < j => fr_columns[i] < fr_columns[j]

\* The middle column held -inf in one row and was removed, its neighbours
\* are kept.
C12_Witness ==
    /\ NanDone
    /\ fr_columns = <<1, 3>>
    /\ diff = {2}
    /\ \E r \in DOMAIN fr_first[2] : fr_first[2][r] = "-inf"
    /\ \A r \in DOMAIN fr_first[2] : fr_first[2][r] \notin {"nan", "inf", "abc"}

-----------------------------------------------------------------------------
(* Properties of find_homo_lumo.                                            *)

Occupied == {i \in 1..Len(mo) : mo[i][2] > 0}
Empty == {i \in 1..Len(mo) : mo[i][2] = 0}

\* The first position of among whose energy no energy of among is above
\* (IsMax) or below (not IsMax), as an index from 0; None when among is empty.
FirstExtreme(among, IsMax) ==
    LET best == {i \in among : \A j \in among :
                    IF IsMax THEN RLe(mo[j][1], mo[i][1])
                             ELSE RLe(mo[i][1], mo[j][1])}
    IN  IF among = {} THEN None
        ELSE <<(CHOOSE i \in best : \A j \in best : i <= j) - 1>>

\* C13: find_homo_lumo returns as homo_idx the first index whose energy is the
\* maximum over the orbitals with occupancy > 0 and as lumo_idx the first
\* index whose energy is the minimum over the orbitals with occupancy == 0,
\* in whatever order the orbitals are listed.
C13_FirstExtremeIndices ==
    hret # None =>
        /\ hret[2] = FirstExtreme(Occupied, TRUE)
        /\ hret[4] = FirstExtreme(Empty, FALSE)

\* A call has returned for orbitals not sorted by energy in which the highest
\* occupied energy occurs twice; the first occurrence is returned.
C13_Witness ==
    /\ hret # None
    /\ Len(mo) = 3
    /\ mo[1][2] > 0 /\ mo[3][2] > 0 /\ mo[1][1] = mo[3][1]
    /\ RLt(mo[2][1], mo[1][1])
    /\ hret[2] = <<0>>
    /\ hret[4] # None

-----------------------------------------------------------------------------
(* Properties of get_environment.                                           *)

\* The call is over: it has returned or raised.
EnvOver == epc \in {"returned", "raised"}

\* What the call is to return, given the environment the library finds.
EnvAsClaimed ==
    LET found == FindAtomEnvironmentOfRadiusN(mol_bonds, radius, center)
        ends == {center} \cup
                {a \in 1..MaxAtoms : \E k \in Elems(found) :
                    a \in {mol_bonds[k][1], mol_bonds[k][2]}}
    IN  /\ eret # None
        /\ Elems(eret[1]) = ends
        /\ Len(eret[1]) = Cardinality(ends)
        /\ Elems(eret[2]) = Elems(found)
        /\ Len(eret[2]) = Cardinality(Elems(found))
        /\ center \in Elems(eret[1])
        /\ DOMAIN eret[3] = Elems(eret[1])
        /\ DOMAIN eret[4] = Elems(eret[2])

\* C14: get_environment(molecule, center, radius) returns as atoms exactly
\* center and both end atoms of every bond of the radius-N environment, as
\* bonds exactly the bonds of that environment, each once, and colour maps
\* whose key sets are these atoms and bonds; center is among the atoms also
\* when the environment is empty.
C14_EnvironmentReturned == EnvOver => (eexc = "" /\ EnvAsClaimed)

\* For a molecule that has a conformer the call returns what C14 says.
EnvReturnedWithConformer == (EnvOver /\ mol_conf) => (eexc = "" /\ EnvAsClaimed)

\* Such a call has returned a non-empty environment, and one an empty one.
EnvReturnedSome == epc = "returned" /\ Len(eret[2]) >= 2 /\ Len(eret[1]) = 3
EnvReturnedNone == epc = "returned" /\ radius = 0 /\ eret[1] = <<center>>

-----------------------------------------------------------------------------
(* Properties of the molecule explorer.                                     *)

\* The molecule the i-th option is to hold: the one built from the i-th
\* SMILES of the table, or its 3D copy.
OptionMolecule(i) ==
    IF mode = "2d" THEN <<i, table[i][2]>> ELSE <<i, table[i][2], "3d">>

\* C15: molecules_from_smiles returns one molecule per SMILES, in the order of
\* the input, so the i-th dropdown option pairs names[i] with the molecule
\* built from smiles[i] (2D) or its 3D embedding; selecting an option passes
\* exactly that molecule to view_2d / view_3d, and the first molecule is
\* selected at first.
C15_OptionsFollowTable ==
    /\ xpc \in {"loaded", "shown", "selected"} =>
          /\ Len(molecules) = Len(table)
          /\ \A i \in 1..Len(table) : molecules[i] = <<i, table[i][2]>>
    /\ xpc \in {"shown", "selected"} =>
          /\ Len(options) = Len(table)
          /\ \A i \in 1..Len(table) :
                options[i] = <<table[i][1], OptionMolecule(i)>>
          /\ viewed[1] = OptionMolecule(index)
    /\ xpc = "shown" => index = 1

\* The second of two options with one name and one SMILES is selected in the
\* 3D dropdown: view_3d is given the second molecule.
C15_Witness ==
    /\ xpc = "selected"
    /\ mode = "3d"
    /\ Len(table) = 2
    /\ table[1] = table[2]
    /\ index = 2
    /\ viewed[1] = <<2, table[2][2], "3d">>

-----------------------------------------------------------------------------
(* Warnings of calculate_ph_full.                                           *)

\* The call has gone through the branch "if w > 0" and not raised in it.
FellBack == roots_oh # None /\ x_oh # None
NotFallenBack == pc \in {"return", "returned"} /\ roots_oh = None /\ exc = ""

C16_State ==
    InFull =>
        /\ nwarn \in 0..3
        /\ nwarn > 0 => (NeedsFallback(w) /\ FellBack)
        /\ NotFallenBack => nwarn = 0
        /\ FellBack =>
              nwarn = CountProblems(BaseProblems(c_ha_zero, ka, kw, x_oh))

\* A step that warns is the step that solves the [OH-] cubic and checks its
\* root; the acid check and the steps after the branch do not warn.
C16_Step ==
    nwarn' > nwarn =>
        /\ pc = "branch" /\ NeedsFallback(w)
        /\ roots_oh = None /\ roots_oh' # None

C16_WitnessSilentFallback ==
    /\ InFull
    /\ pc = "returned"
    /\ FellBack
    /\ nwarn = 0

\* A call returned without falling back.
C16_WitnessNoFallback == InFull /\ NotFallenBack /\ pc = "returned"

-----------------------------------------------------------------------------
(* Properties of split_and_scale.                                           *)

\* The rows train_test_split leaves to training and takes for the test: the
\* permutation after and up to its first n_test places.
TrainRows(column) ==
    [i \in 1..(Samples - NTest(Samples)) |->
        Q(raw_data[shuffle[NTest(Samples) + i]][column], 1)]
TestRows(column) ==
    [i \in 1..NTest(Samples) |-> Q(raw_data[shuffle[i]][column], 1)]

\* A partition holds scaled values.
IsScaled(part) == \E i \in 1..Len(part) : Len(part[i]) = 3
AnyScaled ==
    IsScaled(X_train) \/ IsScaled(X_test) \/ IsScaled(y_train) \/ IsScaled(y_test)

C17_State ==
    /\ scale_x # None => scale_x = Fit(TrainRows(1))
    /\ scale_y # None => scale_y = Fit(TrainRows(2))
    /\ AnyScaled => (scale_x # None /\ scale_y # None)
    /\ IsScaled(X_test) => X_test = Transform(Fit(TrainRows(1)), TestRows(1))
    /\ IsScaled(y_test) => y_test = Transform(Fit(TrainRows(2)), TestRows(2))
    /\ spc = "returned" =>
          /\ IsScaled(X_test) /\ IsScaled(y_test)
          /\ X_train = Transform(Fit(TrainRows(1)), TrainRows(1))
          /\ y_train = Transform(Fit(TrainRows(2)), TrainRows(2))

\* A scaler is fitted while nothing is transformed yet, and not again.
C17_Step ==
    (scale_x' # scale_x \/ scale_y' # scale_y) =>
        /\ ~AnyScaled
        /\ scale_x # None => scale_x' = scale_x
        /\ scale_y # None => scale_y' = scale_y

\* C17: in split_and_scale both scalers are fitted on the training partition
\* only and before any transform: the test partition does not enter the fitted
\* mean and scale, and X_test and y_test are transformed with the scalers
\* fitted on X_train and y_train.
C17_FittedOnTrainingOnly == [](C17_State) /\ [][C17_Step]_vars

\* The call has returned for data whose test row differs from every training
\* row, in X and in y: fitted on all rows the scalers would differ.
C17_Witness ==
    /\ spc = "returned"
    /\ \A i \in 1..Len(TrainRows(1)) :
          /\ TrainRows(1)[i] # TestRows(1)[1]
          /\ TrainRows(2)[i] # TestRows(2)[1]
    /\ scale_x = Fit(TrainRows(1))
    /\ X_test = Transform(scale_x, TestRows(1))

====
